---- MODULE Spec2Model ----
(* Model of the useAudioRecorder hook of src/src/App.jsx (lines 76-362):   *)
(* the recording-session coordinator, its MediaRecorder, device stream,     *)
(* speech-recognition engine and one-second ticker, as a state machine      *)
(* whose steps are the hook's handlers and the browser events they react    *)
(* to.  React state (useState) holds the latest value handed to its setter; *)
(* the ref mirror isRecordingRef is written only by the sync effect, which  *)
(* runs in its own step after a render.                                     *)
(* The module also models the entry collection of the App component (lines  *)
(* 1187-1236), what getAiInsights (32-68) and submitTranscription (513-538) *)
(* put into it, and the analysis proxy api/analyze.js                       *)
(* (src/unnamed/part_000, lines 31-211).                                    *)
EXTENDS Integers, Sequences, FiniteSets, TLC

\* ---------------------------------------------------------------- bounds
MaxStarts == 2      \* getUserMedia requests issued over the hook's life
MaxTicks == 1       \* largest elapsedTime the ticker counts to
MaxChunks == 2      \* non-empty audio chunks delivered over the hook's life
MaxSegs == 1        \* final transcript segments appended per session
StopCap == 2        \* track.stop() calls counted per stream (StopCap = that many or more)
MaxFinals == 2      \* final segments per session in SpecTranscript
MaxEntries == 2     \* entries submitted over the life of SpecEntries

\* ---------------------------------------------------------------- state
VARIABLES
  mounted,            \* the component using the hook is mounted
  isRecording,        \* useState(false), line 77
  elapsedTime,        \* useState(0), line 78
  audioUrl,           \* useState(null), lines 79-80 (audioBlob is set with it)
  transcript,         \* useState(''), line 81: sequence of characters
  isListening,        \* useState(false), line 82
  isRecordingRef,     \* useRef(isRecording), line 92
  mediaRecorderRef,   \* line 85: 0 (null) or a recorder id
  streamRef,          \* line 86: 0 (null) or a stream id
  timerIntervalRef,   \* line 87: 0 (null) or an interval id
  audioChunksRef,     \* line 88: sequence of chunks
  recognitionRef,     \* line 89: TRUE when a SpeechRecognition with handlers is held
  streams,            \* device streams handed out: number of track.stop() calls
  recorders,          \* MediaRecorder objects, indexed like streams
  timers,             \* interval ids that are armed
  engine,             \* the SpeechRecognition service: idle, running, stopping, aborting
  awaiting,           \* startRecording() calls suspended at await getUserMedia
  hasMediaDevices,    \* navigator.mediaDevices.getUserMedia exists
  supported,          \* the types MediaRecorder.isTypeSupported accepts
  op,                 \* the handler that ran in the last step
  hw,                 \* the hardware calls it made, each with isRecordingRef.current at the call
  cb,                 \* the onStopCallback invocation it made, if any
  stopCalled,         \* an accepted stopRecording() is the latest user operation
  finals,             \* the final segments appended since transcript was last emptied
  huddles,            \* App: useState([]), line 1187: the entry collection in memory
  storage,            \* localStorage item 'theHuddles'
  appLoaded,          \* App is mounted and its mount effects have run
  saveDue,            \* huddles was set and the save effect has not yet run for it
  now,                \* the clock read by Date.now() and new Date()
  submitted,          \* the arguments of the last submitTranscription call
  lastSaved,          \* the collection last written by localStorage.setItem
  GEMINI_API_KEY,     \* proxy: process.env.GEMINI_API_KEY, part_000 line 40
  req,                \* the request being handled: method and body
  res,                \* the responses sent for it: status and JSON body
  phase,              \* where the handler is: idle, loop, after, done, crashed
  retries,            \* line 127
  delay,              \* line 129, in milliseconds
  lastError,          \* line 130: the message of the error, or NoError
  apiResponse,        \* line 126: the last upstream response
  fetches,            \* calls made to the upstream API
  waits               \* the delays waited before retries

hookState == <<isRecording, elapsedTime, audioUrl, transcript, isListening>>
hookRefs == <<isRecordingRef, mediaRecorderRef, streamRef, timerIntervalRef,
              audioChunksRef, recognitionRef>>
hardware == <<streams, recorders, timers, engine>>
vars == <<mounted, isRecording, elapsedTime, audioUrl, transcript, isListening,
          isRecordingRef, mediaRecorderRef, streamRef, timerIntervalRef,
          audioChunksRef, recognitionRef, streams, recorders, timers, engine,
          awaiting, hasMediaDevices, supported, op, hw, cb, stopCalled, finals,
          huddles, storage, appLoaded, saveDue, now, submitted, lastSaved,
          GEMINI_API_KEY, req, res, phase, retries, delay, lastError,
          apiResponse, fetches, waits>>

proxyVars == <<GEMINI_API_KEY, req, res, phase, retries, delay, lastError,
               apiResponse, fetches, waits>>

appVars == <<huddles, storage, appLoaded, saveDue, now, submitted, lastSaved>>

\* ---------------------------------------------------------------- values
NullUrl == [isNull |-> TRUE, chunks |-> <<>>, type |-> ""]

\* new Blob(chunks, { type }), and new Blob(chunks, {}) when type is ''
Blob(chunks, type) == [chunks |-> chunks, type |-> type]

CreateObjectURL(blob) == [isNull |-> FALSE, chunks |-> blob.chunks, type |-> blob.type]

MimeTypes == {"audio/webm", "audio/mp4", "audio/ogg"}

\* MediaRecorder.isTypeSupported(type)
IsTypeSupported(type) == type \in supported

\* lines 198-206: the type startRecording asks the recorder for; '' leaves
\* the choice to the browser
mimeType ==
  IF ~IsTypeSupported("audio/webm")
  THEN IF ~IsTypeSupported("audio/mp4") THEN "" ELSE "audio/mp4"
  ELSE "audio/webm"

\* mutant of finalMimeType: the clip is labelled webm on every platform
finalMimeTypeWebm == "audio/webm"

\* lines 282-284: the type onstop gives the clip, two ifs in a row on the
\* value chosen so far
finalMimeType ==
  LET first == "audio/webm"
      second == IF ~IsTypeSupported(first) THEN "audio/mp4" ELSE first
  IN IF ~IsTypeSupported(second) THEN "" ELSE second

NoCb == [kind |-> "-", url |-> NullUrl, rec |-> 0, text |-> <<>>]

Invoke(kind, url, rec, text) == [kind |-> kind, url |-> url, rec |-> rec, text |-> text]

Call(name, flag) == [call |-> name, flag |-> flag]

Calls(h) == {h[i].call : i \in 1..Len(h)}

Segments == {<<"a">>}

RecoverableErrors == {"no-speech", "audio-capture"}

RecognitionErrors == RecoverableErrors \cup {"network"}

Callbacks == {"handleStop", "resetRecording"}

\* segments of several words ("I f" for "I felt strong", "o r" for "on that
\* last rep") and one that carries its own leading space
SegmentsT == {<<"I", " ", "f">>, <<"o", " ", "r">>, <<" ", "x">>}

\* String.prototype.trim on a sequence of characters
RECURSIVE TrimStart(_)
TrimStart(s) == IF s # <<>> /\ Head(s) = " " THEN TrimStart(Tail(s)) ELSE s

RECURSIVE TrimEnd(_)
TrimEnd(s) ==
  IF s # <<>> /\ s[Len(s)] = " " THEN TrimEnd(SubSeq(s, 1, Len(s) - 1)) ELSE s

Trim(s) == TrimEnd(TrimStart(s))

\* mutant of AppendFinal: the new segment replaces the transcript
AppendFinalReplaces(prev, finalTranscript) == Trim(finalTranscript) \o <<" ">>

\* setTranscript(prev => (prev + finalTranscript).trim() + ' ')
AppendFinal(prev, finalTranscript) == Trim(prev \o finalTranscript) \o <<" ">>

\* stream.getTracks().forEach(track => track.stop())
StopTracks(strs, s) ==
  [strs EXCEPT ![s] = IF @ < StopCap THEN @ + 1 ELSE @]

\* clearInterval(id)
ClearInterval(ts, id) == ts \ {id}

EngineActive == engine \in {"running", "stopping", "aborting"}

Recording(r) == recorders[r].state = "recording"

CapturedTotal ==
  LET RECURSIVE Sum(_)
      Sum(i) == IF i = 0 THEN 0 ELSE Len(recorders[i].captured) + Sum(i - 1)
  IN Sum(Len(recorders))

FinalCount(t) == Cardinality({i \in 1..Len(t) : t[i] # " "})

NoRecorder == [state |-> "none", stopQueued |-> FALSE, onstop |-> "unset",
               closure |-> <<>>, captured |-> <<>>, mimeType |-> ""]

\* ---------------------------------------------------------------- entry values
\* JSON null, for prompt and audioUrl
Null == "null"

\* a Date object: the instant in milliseconds, or Invalid Date (ms = -1)
DateObj(ms) == [kind |-> "Date", ms |-> ms]

InvalidDate == DateObj(-1)

\* a string: the ISO text of an instant, or text that is no date (ms = -1)
IsoText(ms) == [kind |-> "string", ms |-> ms]

JunkText == IsoText(-1)

\* line 1207: d.date.toISOString(), millisecond precision
ToISOString(d) == IsoText(d.ms)

\* mutant of NewDate: the time of day is lost on the way back
NewDateDropsTime(v) == DateObj(IF v.ms > 0 THEN 0 ELSE v.ms)

\* line 1194: new Date(d.date) of a stored string
NewDate(v) == DateObj(v.ms)

\* lines 870, 1205: h.date instanceof Date && !isNaN(h.date)
IsValidDate(h) == h.date.kind = "Date" /\ h.date.ms >= 0

\* line 1207: map(d => ({ ...d, date: d.date.toISOString() })), then
\* JSON.stringify, which keeps strings, integers, null and arrays of strings
Storable(hs) == [i \in 1..Len(hs) |-> [hs[i] EXCEPT !.date = ToISOString(@)]]

\* line 1194: JSON.parse(...).map(d => ({ ...d, date: new Date(d.date) }))
Revive(items) == [i \in 1..Len(items) |-> [items[i] EXCEPT !.date = NewDate(@)]]

\* the item 'theHuddles': not there, text JSON.parse rejects, JSON that is
\* no array (its .map is not a function), or the JSON of an array
Absent == [kind |-> "absent", items |-> <<>>]

Unparseable == [kind |-> "unparseable", items |-> <<>>]

NotAnArray == [kind |-> "object", items |-> <<>>]

StoredArray(items) == [kind |-> "array", items |-> items]

\* lines 61-65: what getAiInsights returns from its catch block
Placeholder(message) ==
  [emotions |-> <<"Error">>,
   themes |-> <<"Analysis Unavailable">>,
   insight |-> <<"Could not get analysis: ", message,
                 ". Check connection or server status.">>]

\* a well-formed analysis from /api/analyze
AnalysisResult ==
  [emotions |-> <<"calm">>, themes |-> <<"focus">>, insight |-> <<"Keep going.">>]

\* what the fetch of /api/analyze can come to: rejected, non-2xx with a JSON
\* error body, non-2xx with another body, 2xx with a body that is not JSON,
\* 2xx lacking one of the three fields, 2xx complete
AnalysisOutcomes ==
  {"network", "status.json", "status.other", "ok.notjson", "ok.lacking", "ok.full"}

\* lines 42-58: the message of the error each failure throws
FailureMessage(outcome) ==
  CASE outcome = "network" -> "Failed to fetch"
    [] outcome = "status.json" -> "Server error processing request"
    [] outcome = "status.other" -> "Server responded with status: 502"
    [] outcome = "ok.notjson" -> "Unexpected token"
    [] OTHER -> "Received invalid analysis structure from server."

\* mutant of GetAiInsights: a failure comes back without the placeholders
GetAiInsightsEmptyOnFailure(outcome) ==
  IF outcome = "ok.full" THEN AnalysisResult
  ELSE [emotions |-> <<>>, themes |-> <<>>, insight |-> <<>>]

\* lines 32-68
GetAiInsights(outcome) ==
  IF outcome = "ok.full" THEN AnalysisResult
  ELSE Placeholder(FailureMessage(outcome))

\* lines 525-534: the entry submitTranscription builds
NewHuddle(transcription, url, prompt, duration, insights, t) ==
  [id |-> t,
   date |-> DateObj(t),
   type |-> IF prompt # Null THEN "Guided" ELSE "Vent",
   prompt |-> prompt,
   content |-> transcription,
   audioUrl |-> url,
   duration |-> duration,
   emotions |-> insights.emotions,
   themes |-> insights.themes,
   insight |-> insights.insight]

\* line 1234: setHuddles(prev => [newHuddle, ...prev])
PrependHuddle(newHuddle, prev) == <<newHuddle>> \o prev

\* the texts handed to submitTranscription: too short, and long enough
Transcriptions ==
  {<<"o", "k", " ">>,
   <<"I", " ", "f", "e", "l", "t", " ", "g", "o", "o", "d", " ">>}

NoSubmit == [transcription |-> <<>>, audioUrl |-> Null, outcome |-> "-"]

\* an entry an earlier run of the app saved
EarlierHuddle == NewHuddle(<<"e", "a", "r", "l", "i", "e", "r", " ", "o", "n", "e">>,
                           "blob:0", Null, 0, AnalysisResult, 0)

\* the stored array of that entry with a date that no longer parses
DamagedArray ==
  StoredArray(<<[Storable(<<EarlierHuddle>>)[1] EXCEPT !.date = JunkText]>>)

AppNotLoaded ==
  /\ huddles = <<>>
  /\ appLoaded = FALSE
  /\ saveDue = FALSE
  /\ now = 1
  /\ submitted = NoSubmit

\* ---------------------------------------------------------------- proxy values
\* process.env.GEMINI_API_KEY when the variable is not set
NoKey == "undefined"

Keys == {"key-A", "key-B"}

\* line 41: the upstream URL, a template string that ends in the key
API_URL(key) == <<"https://generativelanguage.googleapis.com/...:generateContent?key=", key>>

NoError == <<>>

NoRequest == [method |-> "-", body |-> "-"]

NoResponse == "none"

\* line 128
maxRetries == 3

\* what one call of the upstream API can come to: 2xx with JSON text in the
\* first candidate, with text that is not JSON, blocked, with neither; 400;
\* 429; 500; another status; or fetch rejecting
UpstreamOutcomes ==
  {"ok.json", "ok.notjson", "ok.blocked", "ok.empty", "400", "429", "500", "404",
   "network"}

\* node-fetch 2 (line 38) rejects with a FetchError whose message is
\* `request to ${request.url} failed, reason: ${err.message}`
FetchErrorMessage(url) == <<"request to ">> \o url \o <<" failed, reason: ", "ECONNRESET">>

Json(status, body) == [status |-> status, body |-> body]

\* lines 183-204: the response for an upstream 2xx, from its body
SuccessResponse(outcome) ==
  CASE outcome = "ok.json" -> Json(200, <<"emotions", "themes", "insight">>)
    [] outcome = "ok.notjson" -> Json(500, <<"AI returned invalid JSON format.">>)
    [] outcome = "ok.blocked" -> Json(400, <<"AI request blocked: ", "SAFETY">>)
    [] OTHER -> Json(500, <<"Failed to parse insights from AI response.">>)

\* lines 206-209: the catch of the handler
ErrorResponse(message) ==
  Json(500, <<"Server error processing request: ">> \o message)

Contains(body, token) == \E i \in 1..Len(body) : body[i] = token

ProxyIdle ==
  /\ req = NoRequest
  /\ res = <<>>
  /\ phase = "idle"
  /\ retries = 0
  /\ delay = 1000
  /\ lastError = NoError
  /\ apiResponse = NoResponse
  /\ fetches = 0
  /\ waits = <<>>

\* ---------------------------------------------------------------- Init
Init ==
  /\ mounted = TRUE
  /\ isRecording = FALSE
  /\ elapsedTime = 0
  /\ audioUrl = NullUrl
  /\ transcript = <<>>
  /\ isListening = FALSE
  /\ isRecordingRef = FALSE
  /\ mediaRecorderRef = 0
  /\ streamRef = 0
  /\ timerIntervalRef = 0
  /\ audioChunksRef = <<>>
  /\ recognitionRef \in BOOLEAN
  /\ streams = <<>>
  /\ recorders = <<>>
  /\ timers = {}
  /\ engine = "idle"
  /\ awaiting = 0
  /\ hasMediaDevices \in BOOLEAN
  /\ supported = {"audio/webm"}
  /\ op = "init"
  /\ hw = <<>>
  /\ cb = NoCb
  /\ stopCalled = FALSE
  /\ finals = <<>>
  /\ AppNotLoaded
  /\ storage = Absent
  /\ lastSaved = <<>>
  /\ ProxyIdle
  /\ GEMINI_API_KEY = NoKey

\* ---------------------------------------------------------------- effects
\* useEffect(() => { isRecordingRef.current = isRecording }, [isRecording])
SyncRef ==
  /\ mounted
  /\ isRecordingRef # isRecording
  /\ isRecordingRef' = isRecording
  /\ op' = "syncRef"
  /\ hw' = <<>>
  /\ cb' = NoCb
  /\ UNCHANGED <<appVars, proxyVars, mounted, finals, hookState, mediaRecorderRef, streamRef,
                 timerIntervalRef, audioChunksRef, recognitionRef, hardware,
                 awaiting, hasMediaDevices, supported, stopCalled>>

\* ---------------------------------------------------------------- startRecording
\* lines 172-179: the call up to the await; without getUserMedia it alerts and returns
StartRecording ==
  /\ mounted
  /\ Len(streams) + awaiting < MaxStarts
  /\ awaiting' = IF hasMediaDevices THEN awaiting + 1 ELSE awaiting
  /\ op' = IF hasMediaDevices THEN "startRecording" ELSE "startRecording.unsupported"
  /\ hw' = IF hasMediaDevices THEN <<Call("getUserMedia", isRecordingRef)>>
           ELSE <<Call("alert", isRecordingRef)>>
  /\ cb' = NoCb
  /\ stopCalled' = FALSE
  /\ UNCHANGED <<appVars, proxyVars, mounted, finals, hookState, hookRefs, hardware, hasMediaDevices, supported>>

\* mutant of GetUserMediaReject: the state reset of lines 191-195 runs before
\* the acquisition is known to have succeeded
GetUserMediaRejectAfterReset(errName) ==
  /\ awaiting > 0
  /\ awaiting' = awaiting - 1
  /\ isRecording' = TRUE
  /\ audioChunksRef' = <<>>
  /\ op' = "getUserMedia.reject"
  /\ hw' = <<Call("alert:" \o errName, isRecordingRef)>>
  /\ cb' = NoCb
  /\ stopCalled' = FALSE
  /\ UNCHANGED <<appVars, proxyVars, mounted, finals, elapsedTime, audioUrl, transcript, isListening,
                 isRecordingRef, mediaRecorderRef, streamRef, timerIntervalRef,
                 recognitionRef, hardware, hasMediaDevices, supported>>

\* lines 181-189: getUserMedia rejected; alert and return
GetUserMediaReject(errName) ==
  /\ awaiting > 0
  /\ awaiting' = awaiting - 1
  /\ op' = "getUserMedia.reject"
  /\ hw' = <<Call("alert:" \o errName, isRecordingRef)>>
  /\ cb' = NoCb
  /\ stopCalled' = FALSE
  /\ UNCHANGED <<appVars, proxyVars, mounted, finals, hookState, hookRefs, hardware, hasMediaDevices, supported>>

\* mutant of ReleaseOnRecorderFailure: the catch block forgets the stream
ReleaseOnRecorderFailureSkipped(strs, s) == strs

\* lines 227-229: the catch block's release of the stream just acquired
ReleaseOnRecorderFailure(strs, s) == StopTracks(strs, s)

\* lines 236-248: recognition.start(); on an engine that has not ended it
\* throws InvalidStateError (the only exception start() raises) and the
\* engine stays as it is; either way startRecording sets isListening true
StartEngine(e) == IF e = "idle" THEN "running" ELSE e

\* mutant of ListeningAfterStart: isListening is set without an engine
ListeningAfterStartAlways(rec, listening) == TRUE

\* lines 235-251: setIsListening(true) after recognition.start(), also when it
\* threw InvalidStateError; with no recognition object nothing is set
ListeningAfterStart(rec, listening) == IF rec THEN TRUE ELSE listening

\* mutant of ListeningOnStartError: InvalidStateError is handled like any
\* other error of start()
ListeningOnStartErrorFalse(name) == FALSE

\* lines 240-248: the catch around recognition.start(): isListening is set
\* true for InvalidStateError (already started), false for another error
ListeningOnStartError(name) == name = "InvalidStateError"

\* lines 179-180, 191-258: getUserMedia resolved with a new stream and the
\* rest of startRecording runs.  fail: "none", or where the recorder block
\* throws ("ctor": new MediaRecorder, "start": recorder.start()).
\* setState calls on an unmounted component are dropped.
GetUserMediaResolve(fail) ==
  LET s == Len(streams) + 1
      ok == fail = "none"
      acquired == Append(streams, 0)
      rec == recognitionRef
      f == isRecordingRef
  IN
  /\ awaiting > 0
  /\ awaiting' = awaiting - 1
  /\ streams' = IF ok THEN acquired ELSE ReleaseOnRecorderFailure(acquired, s)
  /\ streamRef' = IF ok THEN s ELSE 0
  /\ recorders' = Append(recorders,
        IF fail = "ctor" THEN NoRecorder
        ELSE [NoRecorder EXCEPT !.state = IF ok THEN "recording" ELSE "inactive",
                                !.mimeType = mimeType])
  /\ mediaRecorderRef' = IF fail = "ctor" THEN mediaRecorderRef ELSE s
  /\ audioChunksRef' = <<>>
  /\ isRecording' = IF mounted THEN ok ELSE isRecording
  /\ audioUrl' = IF mounted THEN NullUrl ELSE audioUrl
  /\ transcript' = IF mounted THEN <<>> ELSE transcript
  /\ finals' = IF mounted THEN <<>> ELSE finals
  /\ engine' = IF ok /\ rec THEN StartEngine(engine) ELSE engine
  /\ isListening' = IF ~(ok /\ mounted) THEN isListening
                   ELSE IF rec /\ StartEngine(engine) # "running"
                        THEN ListeningOnStartError("InvalidStateError")
                   ELSE ListeningAfterStart(rec, isListening)
  /\ elapsedTime' = IF ok /\ mounted THEN 0 ELSE elapsedTime
  /\ timers' = IF ok THEN ClearInterval(timers, timerIntervalRef) \cup {s} ELSE timers
  /\ timerIntervalRef' = IF ok THEN s ELSE timerIntervalRef
  /\ op' = IF ok THEN "getUserMedia.resolve" ELSE "startRecording.recorderFailed"
  /\ hw' = IF ok
           THEN <<Call("recorder.start", f)>>
                \o (IF rec THEN <<Call("recognition.start", f)>> ELSE <<>>)
                \o <<Call("clearInterval", f), Call("setInterval", f)>>
           ELSE <<Call("alert", f), Call("track.stop", f)>>
  /\ cb' = NoCb
  /\ stopCalled' = FALSE
  /\ UNCHANGED <<appVars, proxyVars, mounted, isRecordingRef, recognitionRef, hasMediaDevices, supported>>

\* ---------------------------------------------------------------- stopRecording
\* lines 498-502: the callback handleStop passes closes over the transcript of
\* the render that created it (here the latest one); lines 329-336: the
\* callback resetRecording passes reads no transcript
ClosureText(k) == IF k = "handleStop" THEN transcript ELSE <<>>

\* mutant of StopCallback: the callback runs before stopRecording returns
\* even when the recorder was recording
StopCallbackImmediate(active, k, r, text) == Invoke(k, NullUrl, r, text)

\* mutant of StopCallback: no callback when the recorder was not recording
StopCallbackDropped(active, k, r, text) == NoCb

\* lines 279-315: what stopRecording itself does with onStopCallback.  With the
\* recorder recording it only installs onstop (the catch of 308-312 is dead:
\* stop() throws only on an inactive recorder, and line 279 has just seen
\* "recording"); otherwise line 314 calls it with null.
StopCallback(active, k, r, text) ==
  IF active THEN NoCb ELSE Invoke(k, NullUrl, r, text)

\* lines 261-324, past the guard of line 262, with onStopCallback = k.
\* Line 265 hands false to the state setter; the ref is left to the sync effect.
StopBody(k) ==
  LET r == mediaRecorderRef
      active == r # 0 /\ Recording(r)
      f == isRecordingRef
      cleared == ~active /\ k = "resetRecording"
      text == ClosureText(k)
  IN
  /\ isRecording' = FALSE
  /\ engine' = IF recognitionRef /\ engine = "running" THEN "stopping" ELSE engine
  /\ recorders' = IF active
                  THEN [recorders EXCEPT ![r].state = "inactive",
                                         ![r].stopQueued = TRUE,
                                         ![r].onstop = k,
                                         ![r].closure = text]
                  ELSE recorders
  /\ cb' = StopCallback(active, k, r, text)
  /\ audioUrl' = IF cleared THEN NullUrl ELSE audioUrl
  /\ elapsedTime' = IF cleared THEN 0 ELSE elapsedTime
  /\ transcript' = IF cleared THEN <<>> ELSE transcript
  /\ finals' = IF cleared THEN <<>> ELSE finals
  /\ isListening' = IF cleared THEN FALSE ELSE isListening
  /\ streams' = IF streamRef # 0 THEN StopTracks(streams, streamRef) ELSE streams
  /\ streamRef' = 0
  /\ timers' = ClearInterval(timers, timerIntervalRef)
  /\ timerIntervalRef' = 0
  /\ hw' = (IF recognitionRef THEN <<Call("recognition.stop", f)>> ELSE <<>>)
           \o (IF active THEN <<Call("recorder.stop", f)>> ELSE <<>>)
           \o (IF streamRef # 0 THEN <<Call("track.stop", f)>> ELSE <<>>)
           \o <<Call("clearInterval", f)>>
  /\ stopCalled' = TRUE
  /\ UNCHANGED <<appVars, proxyVars, mounted, isRecordingRef, mediaRecorderRef, audioChunksRef,
                 recognitionRef, awaiting, hasMediaDevices, supported>>

\* line 262: if (!isRecordingRef.current) return
StopGuard == isRecordingRef

\* lines 261-324, called by HuddleScreen.handleStop (lines 497-503)
StopRecording ==
  /\ mounted
  /\ IF StopGuard
     THEN /\ StopBody("handleStop")
          /\ op' = "stopRecording"
     ELSE /\ op' = "stopRecording.ignored"
          /\ hw' = <<>>
          /\ cb' = NoCb
          /\ UNCHANGED <<appVars, proxyVars, mounted, finals, hookState, hookRefs, hardware, awaiting,
                         hasMediaDevices, supported, stopCalled>>

\* ---------------------------------------------------------------- resetRecording
\* lines 326-350
ResetRecording ==
  /\ mounted
  /\ IF isRecordingRef
     THEN /\ StopBody("resetRecording")
          /\ op' = "resetRecording.stop"
     ELSE /\ audioUrl' = NullUrl
          /\ elapsedTime' = 0
          /\ transcript' = <<>>
          /\ finals' = <<>>
          /\ isListening' = FALSE
          /\ timers' = IF timerIntervalRef # 0
                       THEN ClearInterval(timers, timerIntervalRef) ELSE timers
          /\ streams' = IF streamRef # 0
                        THEN StopTracks(streams, streamRef) ELSE streams
          /\ engine' = IF recognitionRef /\ EngineActive THEN "aborting" ELSE engine
          /\ op' = "resetRecording.clear"
          /\ hw' = (IF timerIntervalRef # 0
                    THEN <<Call("clearInterval", isRecordingRef)>> ELSE <<>>)
                   \o (IF streamRef # 0
                       THEN <<Call("track.stop", isRecordingRef)>> ELSE <<>>)
                   \o (IF recognitionRef
                       THEN <<Call("recognition.abort", isRecordingRef)>> ELSE <<>>)
          /\ cb' = NoCb
          /\ stopCalled' = FALSE
          /\ UNCHANGED <<appVars, proxyVars, mounted, isRecording, hookRefs, recorders, awaiting,
                         hasMediaDevices, supported>>

\* ---------------------------------------------------------------- recorder events
\* lines 213-217: recorder.ondataavailable; a recorder delivers data while
\* recording and once more between stop() and its stop event
DataAvailable(r, size) ==
  LET chunk == [rec |-> r, seq |-> Len(recorders[r].captured) + 1]
      keep == size > 0
  IN
  /\ Recording(r) \/ recorders[r].stopQueued
  /\ keep => CapturedTotal < MaxChunks
  /\ audioChunksRef' = IF keep THEN Append(audioChunksRef, chunk) ELSE audioChunksRef
  /\ recorders' = IF keep THEN [recorders EXCEPT ![r].captured = Append(@, chunk)]
                  ELSE recorders
  /\ op' = "ondataavailable"
  /\ hw' = <<>>
  /\ cb' = NoCb
  /\ UNCHANGED <<appVars, proxyVars, mounted, finals, hookState, isRecordingRef, mediaRecorderRef, streamRef,
                 timerIntervalRef, recognitionRef, streams, timers, engine,
                 awaiting, hasMediaDevices, supported, stopCalled>>

\* lines 286-302: what the onstop handler hands to onStopCallback
ArtifactOf(chunks) ==
  IF Len(chunks) > 0 THEN CreateObjectURL(Blob(chunks, finalMimeType)) ELSE NullUrl

\* mutant of StopEventDelivered: the recorder fires its stop event again
StopEventRepeats(rec) == rec

\* a MediaRecorder fires one stop event for a stop: once the handler of
\* lines 281-304 has run, none is pending
StopEventDelivered(rec) == [rec EXCEPT !.stopQueued = FALSE]

\* lines 281-304: the recorder confirms the stop; mediaRecorder.onstop runs
\* if stopRecording installed it, with the callback of that call
RecorderStop(r) ==
  LET k == recorders[r].onstop
      url == ArtifactOf(audioChunksRef)
      handled == k # "unset"
      cleared == handled /\ k = "resetRecording"
  IN
  /\ recorders[r].stopQueued
  /\ recorders' = [recorders EXCEPT ![r] = StopEventDelivered(@)]
  /\ audioUrl' = IF ~handled \/ ~mounted THEN audioUrl
                 ELSE IF cleared THEN NullUrl
                 ELSE IF url.isNull THEN audioUrl ELSE url
  /\ elapsedTime' = IF cleared /\ mounted THEN 0 ELSE elapsedTime
  /\ transcript' = IF cleared /\ mounted THEN <<>> ELSE transcript
  /\ finals' = IF cleared /\ mounted THEN <<>> ELSE finals
  /\ isListening' = IF cleared /\ mounted THEN FALSE ELSE isListening
  /\ audioChunksRef' = IF handled THEN <<>> ELSE audioChunksRef
  /\ cb' = IF handled THEN Invoke(k, url, r, recorders[r].closure) ELSE NoCb
  /\ op' = "onstop"
  /\ hw' = <<>>
  /\ UNCHANGED <<appVars, proxyVars, mounted, isRecording, isRecordingRef, mediaRecorderRef, streamRef,
                 timerIntervalRef, recognitionRef, streams, timers, engine,
                 awaiting, hasMediaDevices, supported, stopCalled>>

\* A recorder whose stream's tracks were stopped under it (lines 157, 345 stop
\* the tracks without stopping the recorder) is stopped by the browser.
TracksEnded(r) ==
  /\ Recording(r)
  /\ streams[r] > 0
  /\ recorders' = [recorders EXCEPT ![r].state = "inactive", ![r].stopQueued = TRUE]
  /\ op' = "tracksEnded"
  /\ hw' = <<>>
  /\ cb' = NoCb
  /\ UNCHANGED <<appVars, proxyVars, mounted, finals, hookState, hookRefs, streams, timers, engine, awaiting,
                 hasMediaDevices, supported, stopCalled>>

\* ---------------------------------------------------------------- ticker
\* lines 256-258: the interval callback, setElapsedTime(prev => prev + 1)
Tick(t) ==
  /\ t \in timers
  /\ elapsedTime < MaxTicks
  /\ elapsedTime' = IF mounted THEN elapsedTime + 1 ELSE elapsedTime
  /\ op' = "tick"
  /\ hw' = <<>>
  /\ cb' = NoCb
  /\ UNCHANGED <<appVars, proxyVars, mounted, finals, isRecording, audioUrl, transcript, isListening, hookRefs,
                 hardware, awaiting, hasMediaDevices, supported, stopCalled>>

\* ---------------------------------------------------------------- engine events
\* lines 109-123: recognition.onresult with one result, final or interim
OnResultBody(seg, isFinal) ==
  /\ recognitionRef
  /\ engine \in {"running", "stopping"}
  /\ transcript' = IF isFinal THEN AppendFinal(transcript, seg \o <<" ">>)
                   ELSE transcript
  /\ finals' = IF isFinal THEN Append(finals, seg) ELSE finals
  /\ op' = "onresult"
  /\ hw' = <<>>
  /\ cb' = NoCb
  /\ UNCHANGED <<appVars, proxyVars, mounted, isRecording, elapsedTime, audioUrl, isListening, hookRefs,
                 hardware, awaiting, hasMediaDevices, supported, stopCalled>>

\* recognition.onresult, at most MaxSegs final one-character segments a session
OnResult(seg, isFinal) ==
  /\ isFinal => FinalCount(transcript) < MaxSegs
  /\ OnResultBody(seg, isFinal)

\* recognition.onresult, at most MaxFinals final segments of several words
OnResultT(seg, isFinal) ==
  /\ isFinal => Len(finals) < MaxFinals
  /\ OnResultBody(seg, isFinal)

\* mutant of OnError: a non-recoverable error also ends the recording
OnErrorEndsRecording(err) ==
  /\ recognitionRef
  /\ EngineActive
  /\ isListening' = IF err \in RecoverableErrors THEN isListening ELSE FALSE
  /\ isRecording' = IF err \in RecoverableErrors THEN isRecording ELSE FALSE
  /\ op' = "onerror"
  /\ hw' = IF err \in RecoverableErrors THEN <<>>
           ELSE <<Call("alert", isRecordingRef)>>
  /\ cb' = NoCb
  /\ UNCHANGED <<appVars, proxyVars, mounted, finals, elapsedTime, audioUrl, transcript, hookRefs,
                 hardware, awaiting, hasMediaDevices, supported, stopCalled>>

\* mutant of OnError: every error, recoverable or not, clears isListening
OnErrorClearsListening(err) ==
  /\ recognitionRef
  /\ EngineActive
  /\ isListening' = FALSE
  /\ op' = "onerror"
  /\ hw' = IF err \in RecoverableErrors THEN <<>>
           ELSE <<Call("alert", isRecordingRef)>>
  /\ cb' = NoCb
  /\ UNCHANGED <<appVars, proxyVars, mounted, finals, isRecording, elapsedTime, audioUrl, transcript, hookRefs,
                 hardware, awaiting, hasMediaDevices, supported, stopCalled>>

\* lines 125-130: recognition.onerror
OnError(err) ==
  /\ recognitionRef
  /\ EngineActive
  /\ isListening' = IF err \in RecoverableErrors THEN isListening ELSE FALSE
  /\ op' = "onerror"
  /\ hw' = IF err \in RecoverableErrors THEN <<>>
           ELSE <<Call("alert", isRecordingRef)>>
  /\ cb' = NoCb
  /\ UNCHANGED <<appVars, proxyVars, mounted, finals, isRecording, elapsedTime, audioUrl, transcript, hookRefs,
                 hardware, awaiting, hasMediaDevices, supported, stopCalled>>

\* mutant of ShouldRestart: the handler reads the rendered state
ShouldRestartFromState == isRecording

\* mutant of ShouldRestart: restarts are given up after the first second
ShouldRestartCapped == isRecordingRef /\ elapsedTime < 1

\* line 134: the restart check of the termination handler
ShouldRestart == isRecordingRef

\* lines 132-149: the engine terminates (on its own, or after stop() or
\* abort()) and recognition.onend runs if the handler is still attached
OnEnd ==
  LET restart == recognitionRef /\ ShouldRestart
  IN
  /\ EngineActive
  /\ engine' = IF restart THEN StartEngine("idle") ELSE "idle"
  /\ isListening' = IF recognitionRef /\ ~restart THEN FALSE ELSE isListening
  /\ op' = "onend"
  /\ hw' = IF restart THEN <<Call("recognition.start", isRecordingRef)>> ELSE <<>>
  /\ cb' = NoCb
  /\ UNCHANGED <<appVars, proxyVars, mounted, finals, isRecording, elapsedTime, audioUrl, transcript, hookRefs,
                 streams, recorders, timers, awaiting, hasMediaDevices, supported, stopCalled>>

\* ---------------------------------------------------------------- unmount
\* lines 155-169: the cleanup of the hook's effect
Unmount ==
  /\ mounted
  /\ mounted' = FALSE
  /\ timers' = IF timerIntervalRef # 0
               THEN ClearInterval(timers, timerIntervalRef) ELSE timers
  /\ streams' = IF streamRef # 0 THEN StopTracks(streams, streamRef) ELSE streams
  /\ engine' = IF recognitionRef /\ EngineActive THEN "aborting" ELSE engine
  /\ recognitionRef' = FALSE
  /\ op' = "unmount"
  /\ hw' = (IF timerIntervalRef # 0
            THEN <<Call("clearInterval", isRecordingRef)>> ELSE <<>>)
           \o (IF streamRef # 0
               THEN <<Call("track.stop", isRecordingRef)>> ELSE <<>>)
           \o (IF recognitionRef
               THEN <<Call("recognition.abort", isRecordingRef)>> ELSE <<>>)
  /\ cb' = NoCb
  /\ stopCalled' = FALSE
  /\ UNCHANGED <<appVars, proxyVars, hookState, finals, isRecordingRef, mediaRecorderRef, streamRef,
                 timerIntervalRef, audioChunksRef, recorders, awaiting,
                 hasMediaDevices, supported>>

\* ---------------------------------------------------------------- specification
Sessions == 1..Len(recorders)

Next ==
  \/ SyncRef
  \/ StartRecording
  \/ \E e \in {"NotAllowedError", "NotFoundError"} : GetUserMediaReject(e)
  \/ \E fail \in {"none", "ctor", "start"} : GetUserMediaResolve(fail)
  \/ StopRecording
  \/ ResetRecording
  \/ \E r \in Sessions, size \in {0, 1} : DataAvailable(r, size)
  \/ \E r \in Sessions : RecorderStop(r)
  \/ \E r \in Sessions : TracksEnded(r)
  \/ \E t \in timers : Tick(t)
  \/ \E seg \in Segments, isFinal \in BOOLEAN : OnResult(seg, isFinal)
  \/ \E err \in RecognitionErrors : OnError(err)
  \/ OnEnd
  \/ Unmount

Spec == Init /\ [][Next]_vars

\* The session with segments of several words and no audio data, ticks,
\* recognition errors or disposal: the transcript the handlers build.
NextTranscript ==
  \/ SyncRef
  \/ StartRecording
  \/ GetUserMediaResolve("none")
  \/ StopRecording
  \/ ResetRecording
  \/ \E r \in Sessions : RecorderStop(r)
  \/ \E seg \in SegmentsT, isFinal \in BOOLEAN : OnResultT(seg, isFinal)
  \/ OnEnd

SpecTranscript == Init /\ [][NextTranscript]_vars

\* The session on every platform: which of the audio types the browser's
\* MediaRecorder supports, with audio data and no ticks or transcription.
InitFormat ==
  /\ mounted = TRUE
  /\ isRecording = FALSE
  /\ elapsedTime = 0
  /\ audioUrl = NullUrl
  /\ transcript = <<>>
  /\ isListening = FALSE
  /\ isRecordingRef = FALSE
  /\ mediaRecorderRef = 0
  /\ streamRef = 0
  /\ timerIntervalRef = 0
  /\ audioChunksRef = <<>>
  /\ recognitionRef = FALSE
  /\ streams = <<>>
  /\ recorders = <<>>
  /\ timers = {}
  /\ engine = "idle"
  /\ awaiting = 0
  /\ hasMediaDevices = TRUE
  /\ supported \in SUBSET MimeTypes
  /\ op = "init"
  /\ hw = <<>>
  /\ cb = NoCb
  /\ stopCalled = FALSE
  /\ finals = <<>>
  /\ AppNotLoaded
  /\ storage = Absent
  /\ lastSaved = <<>>
  /\ ProxyIdle
  /\ GEMINI_API_KEY = NoKey

NextFormat ==
  \/ SyncRef
  \/ StartRecording
  \/ \E fail \in {"none", "ctor", "start"} : GetUserMediaResolve(fail)
  \/ StopRecording
  \/ ResetRecording
  \/ \E r \in Sessions, size \in {0, 1} : DataAvailable(r, size)
  \/ \E r \in Sessions : RecorderStop(r)

SpecFormat == InitFormat /\ [][NextFormat]_vars

\* lines 132-149 for an engine that stop() or abort() has told to end
EngineEnds == engine \in {"stopping", "aborting"} /\ OnEnd

\* The session with its events delivered: React runs the sync effect after
\* each render, a recorder told to stop fires its stop event, and an engine
\* told to stop or abort fires its end event.  The user's calls and an
\* engine ending on its own are under no such obligation.
NextStop ==
  \/ SyncRef
  \/ StartRecording
  \/ GetUserMediaResolve("none")
  \/ StopRecording
  \/ \E r \in Sessions : RecorderStop(r)
  \/ \E err \in RecognitionErrors : OnError(err)
  \/ OnEnd

SpecStop ==
  /\ Init
  /\ [][NextStop]_vars
  /\ WF_vars(SyncRef)
  /\ WF_vars(\E r \in Sessions : RecorderStop(r))
  /\ WF_vars(EngineEnds)

\* ---------------------------------------------------------------- entries
hookAll == <<mounted, hookState, hookRefs, hardware, awaiting, hasMediaDevices, supported,
             stopCalled, finals>>

\* setItem can only run out of room when it writes more than the last
\* successful setItem wrote
QuotaCanFail(items) == Len(items) > Len(lastSaved)

\* lines 1189-1213 at mount: the load effect and the save effect run in the
\* same commit, the save effect with the huddles of the first render ([]).
\* Load: an item that does not parse into an array throws into the catch
\* (console.error, removeItem); an array is handed to setHuddles.  Save: no
\* valid entry in [], so removeItem.
MountEffects ==
  LET throws == storage.kind \in {"unparseable", "object"}
      got == storage.kind = "array"
  IN
  /\ ~appLoaded
  /\ appLoaded' = TRUE
  /\ huddles' = IF got THEN Revive(storage.items) ELSE <<>>
  /\ saveDue' = got
  /\ storage' = Absent
  /\ op' = "mountEffects"
  /\ hw' = (IF throws THEN <<Call("console.error", FALSE),
                            Call("localStorage.removeItem", FALSE)>> ELSE <<>>)
           \o <<Call("localStorage.removeItem", FALSE)>>
  /\ cb' = NoCb
  /\ UNCHANGED <<proxyVars, hookAll, now, submitted, lastSaved>>

\* lines 1201-1213: the save effect of the render that follows setHuddles
SaveEffect(fail) ==
  LET validHuddles == SelectSeq(huddles, IsValidDate)
      storableHuddles == Storable(validHuddles)
  IN
  /\ appLoaded
  /\ saveDue
  /\ fail => validHuddles # <<>> /\ QuotaCanFail(storableHuddles)
  /\ saveDue' = FALSE
  /\ storage' = IF validHuddles = <<>> THEN Absent
                ELSE IF fail THEN storage
                ELSE StoredArray(storableHuddles)
  /\ lastSaved' = IF validHuddles # <<>> /\ ~fail THEN validHuddles ELSE lastSaved
  /\ op' = IF fail THEN "saveEffect.failed" ELSE "saveEffect"
  /\ hw' = IF validHuddles = <<>> THEN <<Call("localStorage.removeItem", FALSE)>>
           ELSE IF fail THEN <<Call("localStorage.setItem", FALSE),
                               Call("console.error", FALSE), Call("alert", FALSE)>>
           ELSE <<Call("localStorage.setItem", FALSE)>>
  /\ cb' = NoCb
  /\ UNCHANGED <<proxyVars, hookAll, huddles, appLoaded, now, submitted>>

\* lines 513-538 with getAiInsights (32-68), onSave = handleSaveHuddle
\* (1232-1236) and handleDiscard (505-511), whose resetRecording finds the
\* hook at rest and takes its else branch (336-349).  The await of line 523
\* suspends the handler; nothing else writes what it reads or sets.
SubmitTranscription(transcription, url, prompt, outcome) ==
  LET short == Len(Trim(transcription)) < 10
      insights == GetAiInsights(outcome)
      newHuddle == NewHuddle(transcription, url, prompt, elapsedTime, insights, now)
  IN
  /\ appLoaded
  /\ mounted /\ ~isRecording /\ ~isRecordingRef
  /\ timerIntervalRef = 0 /\ streamRef = 0 /\ ~EngineActive
  /\ now <= MaxEntries
  /\ submitted' = [transcription |-> transcription, audioUrl |-> url,
                   outcome |-> IF short THEN "-" ELSE outcome]
  /\ IF short
     THEN /\ op' = "submitTranscription.rejected"
          /\ hw' = <<Call("alert", FALSE)>>
          /\ UNCHANGED <<hookAll, huddles, saveDue, now>>
     ELSE /\ huddles' = PrependHuddle(newHuddle, huddles)
          /\ saveDue' = TRUE
          /\ now' = now + 1
          /\ op' = "submitTranscription"
          /\ hw' = IF outcome = "ok.full" THEN <<>> ELSE <<Call("console.error", FALSE)>>
          /\ elapsedTime' = 0
          /\ audioUrl' = NullUrl
          /\ transcript' = <<>>
          /\ finals' = <<>>
          /\ isListening' = FALSE
          /\ UNCHANGED <<mounted, isRecording, hookRefs, hardware, awaiting,
                         hasMediaDevices, supported, stopCalled>>
  /\ cb' = NoCb
  /\ UNCHANGED <<proxyVars, storage, appLoaded, lastSaved>>

\* the page is closed or reloaded: what is in memory is gone
ClosePage ==
  /\ appLoaded
  /\ appLoaded' = FALSE
  /\ huddles' = <<>>
  /\ saveDue' = FALSE
  /\ op' = "closePage"
  /\ hw' = <<>>
  /\ cb' = NoCb
  /\ UNCHANGED <<proxyVars, hookAll, storage, now, submitted, lastSaved>>

\* what the item can hold when the app starts: nothing, what an earlier run
\* saved, or damaged data (unparseable text, JSON that is no array, an entry
\* whose date no longer parses)
InitEntries ==
  /\ mounted = TRUE
  /\ isRecording = FALSE
  /\ elapsedTime \in 0..MaxTicks
  /\ audioUrl = NullUrl
  /\ transcript = <<>>
  /\ isListening = FALSE
  /\ isRecordingRef = FALSE
  /\ mediaRecorderRef = 0
  /\ streamRef = 0
  /\ timerIntervalRef = 0
  /\ audioChunksRef = <<>>
  /\ recognitionRef = TRUE
  /\ streams = <<>>
  /\ recorders = <<>>
  /\ timers = {}
  /\ engine = "idle"
  /\ awaiting = 0
  /\ hasMediaDevices = TRUE
  /\ supported = {"audio/webm"}
  /\ op = "init"
  /\ hw = <<>>
  /\ cb = NoCb
  /\ stopCalled = FALSE
  /\ finals = <<>>
  /\ AppNotLoaded
  /\ ProxyIdle
  /\ GEMINI_API_KEY = NoKey
  /\ \/ /\ storage \in {Absent, Unparseable, NotAnArray, DamagedArray}
        /\ lastSaved = <<>>
     \/ /\ storage = StoredArray(Storable(<<EarlierHuddle>>))
        /\ lastSaved = <<EarlierHuddle>>

NextEntries ==
  \/ MountEffects
  \/ \E fail \in BOOLEAN : SaveEffect(fail)
  \/ \E transcription \in Transcriptions, url \in {Null, "blob:1"},
        prompt \in {Null, "What went well?"}, outcome \in AnalysisOutcomes :
       SubmitTranscription(transcription, url, prompt, outcome)
  \/ ClosePage

SpecEntries == InitEntries /\ [][NextEntries]_vars

\* ---------------------------------------------------------------- proxy
\* part_000 lines 73-130: the handler up to the retry loop.  body: "undefined"
\* (no parsed body), "notext", "empty", "blank", "nonstring" or "text".
ProxyRequest(method, body) ==
  LET answer ==
        IF method = "OPTIONS" THEN <<[status |-> 200, body |-> <<>>]>>
        ELSE IF method # "POST" THEN <<Json(405, <<"Method Not Allowed">>)>>
        ELSE IF GEMINI_API_KEY = NoKey
             THEN <<Json(500, <<"API key not configured on server.">>)>>
        ELSE IF body = "undefined" THEN <<>>
        ELSE IF body # "text"
             THEN <<Json(400, <<"Request body must contain non-empty \"text\" field.">>)>>
        ELSE <<>>
      crashes == method = "POST" /\ GEMINI_API_KEY # NoKey /\ body = "undefined"
  IN
  /\ phase = "idle"
  /\ req' = [method |-> method, body |-> body]
  /\ res' = answer
  /\ phase' = IF answer # <<>> THEN "done" ELSE IF crashes THEN "crashed" ELSE "loop"
  /\ op' = "proxy.request"
  /\ hw' = <<>>
  /\ cb' = NoCb
  /\ UNCHANGED <<appVars, hookAll, GEMINI_API_KEY, retries, delay, lastError,
                 apiResponse, fetches, waits>>

\* mutant of LoopCondition: the comparison lets one more turn through
LoopConditionInclusive(r) == r <= maxRetries

\* line 132: while (retries < maxRetries)
LoopCondition(r) == r < maxRetries

\* lines 132-171: one turn of the retry loop.  bodyParses: whether the body
\* of a 400 parses as JSON (line 147; if not, the catch of line 164 takes it).
ProxyAttempt(outcome, bodyParses) ==
  LET ok == outcome \in {"ok.json", "ok.notjson", "ok.blocked", "ok.empty"}
      thrown == outcome = "network" \/ (outcome = "400" /\ ~bodyParses)
      retried == thrown \/ outcome \in {"429", "500"}
      message ==
        IF outcome = "network" THEN FetchErrorMessage(API_URL(GEMINI_API_KEY))
        ELSE IF outcome = "400"
             THEN IF bodyParses THEN <<"Invalid request to Gemini: ", "upstream message">>
                  ELSE <<"invalid json response body">>
        ELSE <<"API call failed with status: ", outcome>>
  IN
  /\ phase = "loop"
  /\ LoopCondition(retries)
  /\ fetches' = fetches + 1
  /\ apiResponse' = IF outcome = "network" THEN apiResponse ELSE outcome
  /\ lastError' = IF ok THEN NoError ELSE message
  /\ retries' = IF retried THEN retries + 1 ELSE retries
  /\ waits' = IF retried THEN Append(waits, delay) ELSE waits
  /\ delay' = IF retried THEN delay * 2 ELSE delay
  /\ phase' = IF retried /\ LoopCondition(retries + 1) THEN "loop" ELSE "after"
  /\ op' = "proxy.attempt"
  /\ hw' = <<>>
  /\ cb' = NoCb
  /\ UNCHANGED <<appVars, hookAll, GEMINI_API_KEY, req, res>>

\* lines 173-209: after the loop
ProxyFinish ==
  /\ phase = "after"
  /\ res' = Append(res, IF lastError # NoError THEN ErrorResponse(lastError)
                        ELSE SuccessResponse(apiResponse))
  /\ phase' = "done"
  /\ op' = "proxy.finish"
  /\ hw' = <<>>
  /\ cb' = NoCb
  /\ UNCHANGED <<appVars, hookAll, GEMINI_API_KEY, req, retries, delay, lastError,
                 apiResponse, fetches, waits>>

\* the function is invoked again for another request
ProxyNextRequest ==
  /\ phase \in {"done", "crashed"}
  /\ req' = NoRequest
  /\ res' = <<>>
  /\ phase' = "idle"
  /\ retries' = 0
  /\ delay' = 1000
  /\ lastError' = NoError
  /\ apiResponse' = NoResponse
  /\ fetches' = 0
  /\ waits' = <<>>
  /\ op' = "proxy.next"
  /\ hw' = <<>>
  /\ cb' = NoCb
  /\ UNCHANGED <<appVars, hookAll, GEMINI_API_KEY>>

InitProxy ==
  /\ mounted = TRUE
  /\ isRecording = FALSE
  /\ elapsedTime = 0
  /\ audioUrl = NullUrl
  /\ transcript = <<>>
  /\ isListening = FALSE
  /\ isRecordingRef = FALSE
  /\ mediaRecorderRef = 0
  /\ streamRef = 0
  /\ timerIntervalRef = 0
  /\ audioChunksRef = <<>>
  /\ recognitionRef = TRUE
  /\ streams = <<>>
  /\ recorders = <<>>
  /\ timers = {}
  /\ engine = "idle"
  /\ awaiting = 0
  /\ hasMediaDevices = TRUE
  /\ supported = {"audio/webm"}
  /\ op = "init"
  /\ hw = <<>>
  /\ cb = NoCb
  /\ stopCalled = FALSE
  /\ finals = <<>>
  /\ AppNotLoaded
  /\ storage = Absent
  /\ lastSaved = <<>>
  /\ ProxyIdle
  /\ GEMINI_API_KEY \in Keys \cup {NoKey}

NextProxy ==
  \/ \E method \in {"OPTIONS", "GET", "POST"},
        body \in {"undefined", "notext", "empty", "blank", "nonstring", "text"} :
       ProxyRequest(method, body)
  \/ \E outcome \in UpstreamOutcomes, bodyParses \in BOOLEAN :
       ProxyAttempt(outcome, bodyParses)
  \/ ProxyFinish
  \/ ProxyNextRequest

SpecProxy == InitProxy /\ [][NextProxy]_vars

\* The handler with every await settled: each call of the upstream API comes
\* to one of its outcomes, each wait ends, and the code after the loop runs.
SpecProxyFair ==
  /\ InitProxy
  /\ [][NextProxy]_vars
  /\ WF_vars(\E outcome \in UpstreamOutcomes, bodyParses \in BOOLEAN :
                ProxyAttempt(outcome, bodyParses))
  /\ WF_vars(ProxyFinish)

\* ---------------------------------------------------------------- properties
Open(s) == streams[s] = 0

StopOps == {"stopRecording", "resetRecording.stop"}

TeardownCalls == {"recognition.stop", "recorder.stop", "track.stop"}

\* C1: once stopRecording() has been called and no other user operation has
\* followed it, the termination handler never calls recognition.start().
C1_NoZombieRestart ==
  ~(op = "onend" /\ "recognition.start" \in Calls(hw) /\ stopCalled)

\* C2: in an accepted stopRecording(), isRecordingRef.current is false at each
\* teardown call (recognition.stop, recorder.stop, track.stop) and when
\* stopRecording() returns.
C2_FlagFalseBeforeTeardown ==
  op \in StopOps =>
    /\ ~isRecordingRef
    /\ \A i \in 1..Len(hw) : hw[i].call \in TeardownCalls => ~hw[i].flag

\* a stream's session is over when the hook is disposed, is not recording,
\* or no longer holds the stream's handle
SessionOver(s) == ~mounted \/ ~isRecording \/ streamRef # s

\* C3: every stream obtained from getUserMedia has its tracks stopped exactly
\* once: never more than once, and once its session is over it is not open.
C3_TracksStoppedExactlyOnce ==
  \A s \in 1..Len(streams) :
    /\ streams[s] <= 1
    /\ SessionOver(s) => ~Open(s)

\* C4: at most one session is active: never two open streams, two recording
\* recorders or two tickers, and a startRecording() that resumes while the
\* hook is already Recording changes no stream, recorder, ticker or buffer.
C4_AtMostOneSession ==
  /\ [](/\ Cardinality({s \in 1..Len(streams) : Open(s)}) <= 1
        /\ Cardinality({r \in Sessions : Recording(r)}) <= 1
        /\ Cardinality(timers) <= 1)
  /\ [][(op' = "getUserMedia.resolve" /\ isRecording)
          => UNCHANGED <<streams, recorders, timers, transcript, audioChunksRef>>]_vars

\* C5: once the hook is disposed, every stream is released, no ticker is
\* armed, no recorder is still recording and the engine is not running.
C5_DisposalReleasesEverything ==
  ~mounted =>
    /\ \A s \in 1..Len(streams) : ~Open(s)
    /\ timers = {}
    /\ \A r \in Sessions : ~Recording(r)
    /\ engine \in {"idle", "aborting"}

\* C6: stopRecording() called while isRecording is false changes no session
\* state, touches no hardware and does not invoke its callback.
C6_StopWhenNotRecordingIsNoOp ==
  [][(op' \in {"stopRecording", "stopRecording.ignored"} /\ ~isRecording)
       => (UNCHANGED <<hookState, hookRefs, hardware>> /\ cb' = NoCb)]_vars

\* C7: when the recorder block of startRecording() throws after the stream
\* was acquired, the new stream's tracks have been stopped (once), the handle
\* is cleared, isRecording is false, and the call started neither the
\* engine nor a ticker.
C7_RecorderFailureReleasesStream ==
  op = "startRecording.recorderFailed" =>
    LET s == Len(streams)
    IN /\ streams[s] = 1
       /\ streamRef = 0
       /\ mounted => ~isRecording
       /\ s \notin timers
       /\ timerIntervalRef # s
       /\ ~Recording(s)
       /\ Calls(hw) \cap {"recognition.start", "setInterval", "recorder.start"} = {}

C7_Witness ==
  /\ op = "startRecording.recorderFailed"
  /\ mounted
  /\ streams[Len(streams)] = 1
  /\ streamRef = 0

\* C8: a startRecording() whose device acquisition fails (no getUserMedia, or
\* a rejected request) changes no hook state, no ref and no hardware: no
\* recorder, engine or ticker is started and no stream handle is taken.
C8_AcquireFailureChangesNothing ==
  [][op' \in {"startRecording.unsupported", "getUserMedia.reject"}
       => UNCHANGED <<hookState, hookRefs, hardware>>]_vars

C8_Witness ==
  /\ op = "getUserMedia.reject"
  /\ ~isRecording
  /\ streamRef = 0
  /\ streams = <<>>
  /\ timers = {}
  /\ engine = "idle"

\* C9: elapsedTime is incremented only while the session is Recording: no
\* tick of a mounted hook arrives when isRecording is false.
C9_NoTickAfterRecording ==
  (op = "tick" /\ mounted) => isRecording

\* C10: every invocation of the stop callback receives null when the session's
\* recorder captured no non-empty chunk, and otherwise a clip holding exactly
\* the chunks that recorder captured, in arrival order.
C10_ArtifactIsWhatWasCaptured ==
  cb.kind \in Callbacks =>
    LET captured == IF cb.rec = 0 THEN <<>> ELSE recorders[cb.rec].captured
    IN IF captured = <<>> THEN cb.url.isNull
       ELSE ~cb.url.isNull /\ cb.url.chunks = captured

\* C11: the transcript handed to handleStop's caller with the artifact holds
\* every final segment delivered up to the moment the callback fires.
C11_DeliveredTranscriptIsComplete ==
  cb.kind = "handleStop" => cb.text = transcript

Clean(seg) == seg # <<>> /\ Head(seg) # " " /\ seg[Len(seg)] # " "

RECURSIVE JoinSpaces(_)
JoinSpaces(fs) ==
  IF fs = <<>> THEN <<>>
  ELSE IF Len(fs) = 1 THEN fs[1]
  ELSE fs[1] \o <<" ">> \o JoinSpaces(Tail(fs))

AllClean == \A i \in 1..Len(finals) : Clean(finals[i])

\* C12 as stated: the transcript is the final segments in arrival order joined
\* by single spaces, with no leading or trailing whitespace.
C12_TranscriptIsJoinedFinalsUntrimmed ==
  AllClean => transcript = JoinSpaces(finals)

\* C12 amended: for final segments that carry no whitespace at their ends,
\* the transcript is empty before the first one and afterwards the segments
\* in arrival order joined by single spaces, followed by one trailing space;
\* interim results change nothing.
C12_TranscriptIsJoinedFinals ==
  AllClean =>
    transcript = IF finals = <<>> THEN <<>> ELSE JoinSpaces(finals) \o <<" ">>

C12_Witness ==
  /\ op = "onresult"
  /\ finals = << <<"I", " ", "f">>, <<"o", " ", "r">> >>
  /\ transcript = <<"I", " ", "f", " ", "o", " ", "r", " ">>

\* The newest session was ended by resetRecording while its recorder was
\* recording, the recorder has confirmed the stop, and startRecording has not
\* been called since.
DiscardDone ==
  /\ mounted
  /\ awaiting = 0
  /\ mediaRecorderRef # 0
  /\ mediaRecorderRef = Len(streams)
  /\ recorders[mediaRecorderRef].onstop = "resetRecording"
  /\ recorders[mediaRecorderRef].state = "inactive"
  /\ ~recorders[mediaRecorderRef].stopQueued

\* C13: once the finalization of a session discarded by resetRecording has
\* completed, transcript, elapsedTime and the audio reference hold their
\* initial values until the next startRecording.
C13_DiscardLeavesFieldsCleared ==
  DiscardDone => transcript = <<>> /\ elapsedTime = 0 /\ audioUrl = NullUrl

ResetOps == {"resetRecording.stop", "resetRecording.clear"}

Cleared ==
  /\ ~isRecording
  /\ transcript = <<>>
  /\ elapsedTime = 0
  /\ audioUrl = NullUrl
  /\ ~isListening
  /\ \A s \in 1..Len(streams) : streams[s] > 0
  /\ timers = {}

\* C14: a second resetRecording right after a first leaves the session
\* cleared: not recording, transcript empty, elapsedTime 0, audioUrl null,
\* isListening false, stream released, ticker cancelled.
C14_ResetTwiceIsCleared ==
  [][(op \in ResetOps /\ op' \in ResetOps) => Cleared']_vars

TeardownOps == StopOps \cup {"resetRecording.clear", "unmount"}

AsksToStop == {"recognition.stop", "recognition.abort", "recorder.stop"}

\* C15: in stopRecording, resetRecording and the unmount cleanup, the tracks
\* are stopped after every request to the engine or the recorder to stop, and
\* no recorder is left recording on a stream whose tracks were stopped.
C15_TracksStoppedLast ==
  op \in TeardownOps =>
    \A i \in 1..Len(hw) :
      hw[i].call = "track.stop" =>
        /\ \A j \in 1..Len(hw) : hw[j].call \in AsksToStop => j < i
        /\ \A r \in Sessions : streams[r] > 0 => ~Recording(r)

ChunksOf(url) == {url.chunks[i] : i \in 1..Len(url.chunks)}

\* C16: the artifact a callback receives holds only chunks captured by the
\* recorder of its own session, and while a recorder is recording every chunk
\* it has captured is still held for its own artifact.
C16_NoCrossSessionData ==
  /\ cb.kind \in Callbacks => \A c \in ChunksOf(cb.url) : c.rec = cb.rec
  /\ \A r \in Sessions :
       Recording(r) =>
         \A i \in 1..Len(recorders[r].captured) :
           \E j \in 1..Len(audioChunksRef) : audioChunksRef[j] = recorders[r].captured[i]

Idle ==
  /\ ~isRecording
  /\ awaiting = 0
  /\ \A r \in Sessions : ~recorders[r].stopQueued

\* C17: while the hook is mounted, an Idle session (isRecording false, no
\* startRecording awaiting the device, no stop confirmation pending) holds no
\* open stream, no armed ticker and no recording MediaRecorder, and a
\* Recording session has its stream open, its recorder recording and its
\* ticker armed.
C17_NeverHalfAcquired ==
  mounted =>
    /\ Idle => /\ \A s \in 1..Len(streams) : ~Open(s)
               /\ timers = {}
               /\ \A r \in Sessions : ~Recording(r)
    /\ isRecording => /\ streamRef # 0 /\ Open(streamRef)
                      /\ mediaRecorderRef # 0 /\ Recording(mediaRecorderRef)
                      /\ timerIntervalRef \in timers

FatalError == op = "onerror" /\ "alert" \in Calls(hw)

Capture ==
  <<isRecording, elapsedTime, audioUrl, mediaRecorderRef, streamRef,
    timerIntervalRef, audioChunksRef, streams, recorders, timers, awaiting>>

\* C18: the handling of a non-recoverable recognition error changes nothing
\* of the audio capture (isRecording, recorder, stream, ticker, chunks), and
\* with the listening indicator down an accepted stopRecording on a
\* recording recorder still asks it to stop with the caller's callback.
C18_FatalErrorLeavesCaptureAlone ==
  [][/\ FatalError' => UNCHANGED Capture
     /\ (/\ op' = "stopRecording"
         /\ ~isListening
         /\ mediaRecorderRef # 0
         /\ Recording(mediaRecorderRef))
        => /\ recorders'[mediaRecorderRef].stopQueued
           /\ recorders'[mediaRecorderRef].onstop = "handleStop"]_vars

C18_Witness ==
  /\ FatalError
  /\ isRecording
  /\ mediaRecorderRef # 0 /\ Recording(mediaRecorderRef)
  /\ streamRef # 0 /\ Open(streamRef)
  /\ timerIntervalRef \in timers
  /\ audioChunksRef # <<>>

Restarted == op = "onend" /\ "recognition.start" \in Calls(hw)

\* C19: when the engine terminates right after a non-recoverable error, it is
\* not restarted, and isListening is false exactly when no engine is running.
C19_FatalErrorStopsTranscription ==
  [][(FatalError /\ op' = "onend") =>
       /\ ~Restarted'
       /\ isListening' <=> engine' = "running"]_vars

\* C20: the termination handler restarts the engine exactly when
\* isRecordingRef.current is true; on a restart isListening keeps its value
\* and the engine runs again, otherwise isListening becomes false and the
\* engine stays down.
C20_RestartFollowsFlag ==
  [][(op' = "onend" /\ recognitionRef) =>
       IF isRecordingRef
       THEN Restarted' /\ isListening' = isListening /\ engine' = "running"
       ELSE ~Restarted' /\ ~isListening' /\ engine' = "idle"]_vars

C20_Witness ==
  /\ Restarted
  /\ isRecordingRef
  /\ isListening
  /\ engine = "running"

RecoverableError == op = "onerror" /\ "alert" \notin Calls(hw)

\* C21: the handling of a recoverable recognition error ('no-speech',
\* 'audio-capture') leaves isListening, isRecording, transcript, elapsedTime,
\* the audio reference, the refs, the recorders, the streams, the tickers and
\* the engine unchanged.
C21_RecoverableErrorChangesNothing ==
  [][RecoverableError' =>
       UNCHANGED <<mounted, hookState, hookRefs, hardware, awaiting>>]_vars

C21_Witness ==
  /\ RecoverableError
  /\ isRecording
  /\ isListening
  /\ engine = "running"
  /\ transcript # <<>>
  /\ elapsedTime > 0
  /\ mediaRecorderRef # 0 /\ Recording(mediaRecorderRef)

RecorderRecording == mediaRecorderRef # 0 /\ Recording(mediaRecorderRef)

C23_StopWithoutActiveRecorder ==
  [][(op' = "stopRecording" /\ ~RecorderRecording)
       => /\ cb'.kind = "handleStop" /\ cb'.url = NullUrl
          /\ streamRef # 0 => streams'[streamRef] > 0
          /\ timerIntervalRef \notin timers'
          /\ streamRef' = 0 /\ timerIntervalRef' = 0
          /\ ~isRecording']_vars

C23_Witness ==
  /\ op = "stopRecording"
  /\ "recorder.stop" \notin Calls(hw)
  /\ "track.stop" \in Calls(hw)
  /\ cb.kind = "handleStop" /\ cb.url = NullUrl
  /\ timers = {}

NoSpeechApi == mounted /\ ~recognitionRef

\* C24: on a platform without a speech-recognition API the transcript stays
\* empty, isListening stays false and no engine runs; startRecording still
\* starts the recorder and the ticker without touching an engine, and an
\* accepted stopRecording still asks the recording recorder to stop with the
\* caller's callback.
C24_AudioOnlyWithoutSpeechApi ==
  /\ [](NoSpeechApi => transcript = <<>> /\ ~isListening /\ engine = "idle")
  /\ [][NoSpeechApi =>
          /\ op' = "getUserMedia.resolve"
             => /\ isRecording'
                /\ RecorderRecording'
                /\ timerIntervalRef' \in timers'
                /\ "recognition.start" \notin Calls(hw')
          /\ (op' = "stopRecording" /\ RecorderRecording)
             => /\ recorders'[mediaRecorderRef].stopQueued
                /\ recorders'[mediaRecorderRef].onstop = "handleStop"]_vars

C24_Witness ==
  /\ NoSpeechApi
  /\ op = "onstop"
  /\ cb.kind = "handleStop"
  /\ ~cb.url.isNull
  /\ transcript = <<>>
  /\ ~isListening
  /\ elapsedTime > 0

AnalysisFailed == submitted.outcome \in AnalysisOutcomes \ {"ok.full"}

IsDegraded(h) ==
  /\ h.content = submitted.transcription
  /\ h.audioUrl = submitted.audioUrl
  /\ h.emotions = <<"Error">>
  /\ h.themes = <<"Analysis Unavailable">>
  /\ Len(h.insight) = 3 /\ h.insight[1] = "Could not get analysis: "

\* C25: when the analysis call of a submitTranscription fails in any way, the
\* handler still hands onSave an entry, put first in the collection, with
\* emotions ["Error"], the placeholder theme and insight and the submitted
\* transcript as its content; the save effect that follows writes that entry
\* to storage.
C25_FailedAnalysisStillSaves ==
  /\ (op = "submitTranscription" /\ AnalysisFailed)
     => huddles # <<>> /\ IsDegraded(Head(huddles)) /\ saveDue
  /\ (op = "saveEffect" /\ AnalysisFailed /\ huddles # <<>> /\ IsDegraded(Head(huddles)))
     => storage.kind = "array" /\ Revive(storage.items)[1] = Head(huddles)

C25_Witness ==
  /\ op = "saveEffect"
  /\ submitted.outcome = "network"
  /\ storage.kind = "array"
  /\ storage.items[1].emotions = <<"Error">>
  /\ storage.items[1].content = submitted.transcription
  /\ Len(storage.items) = 2

\* C26: no response the proxy sends contains the value of the API key.
C26_KeyNeverInResponse ==
  GEMINI_API_KEY # NoKey =>
    \A i \in 1..Len(res) : ~Contains(res[i].body, GEMINI_API_KEY)

\* the item holds an array whose dates are all ISO texts, as setItem wrote it
StoredIntact ==
  /\ storage.kind = "array"
  /\ \A i \in 1..Len(storage.items) : storage.items[i].date.ms >= 0

\* C27: when the app loads an intact stored array, the collection it gets is
\* the collection the last setItem saved: the same entries in the same order,
\* each equal in every field (id, date, type, prompt, content, audioUrl,
\* duration, emotions, themes, insight).
C27_SaveLoadRoundTrip ==
  [][(op' = "mountEffects" /\ StoredIntact) => huddles' = lastSaved]_vars

C27_Witness ==
  /\ op = "mountEffects"
  /\ Len(huddles) = 2
  /\ huddles = lastSaved
  /\ huddles[1].date = DateObj(1)
  /\ huddles[1].emotions = <<"Error">>
  /\ huddles[1].audioUrl = Null
  /\ huddles[2] = EarlierHuddle

LoadFails == storage.kind \in {"unparseable", "object"}

\* C28: a failed load (stored data that does not parse into an array) and a
\* failed save (setItem throws) are each reported to the user with an alert
\* and leave both the stored item and the collection in memory as they were.
C28_StorageFailureReportedAndHarmless ==
  [][/\ (op' = "mountEffects" /\ LoadFails)
        => "alert" \in Calls(hw') /\ storage' = storage
     /\ op' = "saveEffect.failed"
        => "alert" \in Calls(hw') /\ storage' = storage /\ huddles' = huddles]_vars

IsSuffix(old, new) ==
  /\ Len(old) <= Len(new)
  /\ \A i \in 1..Len(old) : new[Len(new) - Len(old) + i] = old[i]

\* C29: a saved submitTranscription puts the new entry first and keeps the
\* entries already in the collection, in their order, behind it; and no step
\* of the app changes or removes an entry of an intact stored collection:
\* what was stored stays stored, in its order, at the end of the stored array.
C29_EntriesOnlyPrepended ==
  [][/\ op' = "submitTranscription"
        => /\ Tail(huddles') = huddles
           /\ Head(huddles').content = submitted'.transcription
     /\ StoredIntact
        => storage'.kind = "array" /\ IsSuffix(storage.items, storage'.items)]_vars

\* C30: elapsedTime is 0 when a session starts Recording, each ticker firing
\* adds exactly 1, it never decreases while the session stays Recording, and
\* once the session is no longer Recording no tick changes it, so that the
\* value submitTranscription reads is the number of ticks from start to stop.
C30_ElapsedTimeCountsTicks ==
  [][mounted =>
       /\ op' = "getUserMedia.resolve" => elapsedTime' = 0
       /\ op' = "tick" => elapsedTime' = elapsedTime + 1
       /\ (isRecording /\ isRecording') => elapsedTime' >= elapsedTime
       /\ (~isRecording /\ op' = "tick") => elapsedTime' = elapsedTime]_vars

StartThrew ==
  /\ op = "getUserMedia.resolve"
  /\ "recognition.start" \in Calls(hw)
  /\ engine \in {"stopping", "aborting"}

\* C31: when recognition.start() throws InvalidStateError in startRecording
\* (the engine has not ended since an earlier start), the call raises no alert
\* and completes with isRecording true, isListening true, the recorder
\* recording and the ticker armed; and a termination handler that restarts
\* the engine, whether its start() succeeds or finds the engine already
\* started, changes no hook state, ref, stream, recorder or ticker and
\* leaves the engine running.
C31_AlreadyRunningIsTolerated ==
  [][/\ (mounted /\ recognitionRef /\ EngineActive /\ op' = "getUserMedia.resolve")
        => /\ isRecording' /\ isListening'
           /\ RecorderRecording'
           /\ timerIntervalRef' \in timers'
           /\ "alert" \notin Calls(hw')
           /\ engine' = engine
     /\ (op' = "onend" /\ recognitionRef /\ isRecordingRef)
        => /\ UNCHANGED <<hookState, hookRefs, streams, recorders, timers>>
           /\ engine' = "running"]_vars

C31_Witness ==
  /\ mounted
  /\ StartThrew
  /\ isRecording
  /\ isListening
  /\ timerIntervalRef \in timers

\* the first of audio/webm, audio/mp4 the platform supports, or '' for none
Preferred ==
  IF "audio/webm" \in supported THEN "audio/webm"
  ELSE IF "audio/mp4" \in supported THEN "audio/mp4"
  ELSE ""

\* C32: every MediaRecorder startRecording creates is asked for audio/webm
\* if the platform supports it, otherwise audio/mp4 if supported, otherwise
\* no type; and every clip handed to a stop callback carries the type chosen
\* by the same rule, which is the type its recorder was asked for.
C32_FormatByPreference ==
  /\ \A r \in Sessions :
       recorders[r].state # "none" => recorders[r].mimeType = Preferred
  /\ (cb.kind \in Callbacks /\ ~cb.url.isNull)
     => /\ cb.url.type = Preferred
        /\ cb.url.type = recorders[cb.rec].mimeType

C32_Witness ==
  /\ op = "onstop"
  /\ cb.kind = "handleStop"
  /\ ~cb.url.isNull
  /\ supported = {"audio/mp4", "audio/ogg"}
  /\ cb.url.type = "audio/mp4"
  /\ recorders[cb.rec].mimeType = "audio/mp4"

ActuallyRecording ==
  /\ mounted
  /\ isRecording
  /\ streamRef # 0 /\ Open(streamRef)
  /\ RecorderRecording

\* C33: a stopRecording() called while the session is Recording (isRecording
\* true, stream held and open, recorder recording) is accepted: it passes the
\* guard, sets isRecording false, asks the recorder to stop with the caller's
\* callback and releases the stream.
C33_StopNeverDropped ==
  [][(ActuallyRecording /\ op' \in {"stopRecording", "stopRecording.ignored"})
       => /\ op' = "stopRecording"
          /\ ~isRecording'
          /\ recorders'[mediaRecorderRef].stopQueued
          /\ recorders'[mediaRecorderRef].onstop = "handleStop"
          /\ streams'[streamRef] > 0]_vars

StopAccepted == op = "stopRecording"

AtRest ==
  /\ ~isRecording
  /\ ~isListening
  /\ \A r \in Sessions : ~recorders[r].stopQueued

\* C35: with the recorder's stop event and the engine's end event delivered,
\* an accepted stopRecording is followed by the invocation of its callback,
\* and, unless another user operation follows it first, by a session at
\* rest: isRecording false, no stop confirmation pending, isListening false.
C35_StopEventuallyCompletes ==
  /\ StopAccepted ~> (cb.kind = "handleStop")
  /\ StopAccepted ~> (AtRest \/ ~stopCalled)

\* C36: while isRecordingRef.current is true every end event makes the
\* handler call recognition.start() in the same step, and the step keeps no
\* count and arms no timer: it changes no hook state, ref or ticker, and
\* leaves the engine running with the flag still true, so that the next end
\* event is answered by a restart again, without bound.
C36_RestartsUnbounded ==
  [][(op' = "onend" /\ recognitionRef /\ isRecordingRef)
       => /\ Restarted'
          /\ EngineActive' /\ recognitionRef' /\ isRecordingRef'
          /\ UNCHANGED <<hookState, hookRefs, timers, awaiting>>]_vars

C36_Witness ==
  /\ Restarted
  /\ isRecording /\ isRecordingRef
  /\ elapsedTime > 0
  /\ engine = "running"
  /\ RecorderRecording

\* C37: for every request the upstream API is called at most 3 times,
\* whatever the calls come to; inside the loop every call made so far was
\* retried, fewer than 3 were, and the loop is always left: the handler
\* comes to its response.
C37_AtMostThreeCalls ==
  /\ [](fetches <= 3)
  /\ [](phase = "loop" => fetches = retries /\ retries < 3)
  /\ (phase = "loop") ~> (phase = "done")

C37_Witness ==
  /\ phase = "done"
  /\ fetches = 3
  /\ waits = <<1000, 2000, 4000>>
  /\ Len(res) = 1

Retried == retries' = retries + 1

NetworkError == lastError' = FetchErrorMessage(API_URL(GEMINI_API_KEY))

\* C38: a turn of the loop is followed by a retry only when the call ended in
\* a network error or a status 429 or >= 500, and then the wait is the
\* current delay, doubled for the next (1s, 2s, 4s); a status 400 or another
\* non-OK status leaves the loop with an error and an OK status leaves it
\* with none, in both cases without a retry; after the loop no call is made.
C38_RetryOnlyWhenTransient ==
  [][/\ op' = "proxy.attempt"
        => /\ Retried => NetworkError \/ apiResponse' \in {"429", "500"}
           /\ Retried => /\ waits' = Append(waits, delay)
                          /\ delay' = 2 * delay
                          /\ delay = 1000 * (2 ^ retries)
           /\ (~NetworkError /\ apiResponse' \in {"400", "404"})
              => ~Retried /\ phase' = "after" /\ lastError' # NoError
           /\ (~NetworkError /\ apiResponse' \in {"ok.json", "ok.notjson", "ok.blocked", "ok.empty"})
              => ~Retried /\ phase' = "after" /\ lastError' = NoError
     /\ phase = "after" => fetches' = fetches \/ op' = "proxy.next"]_vars

Handled == phase \in {"done", "crashed"}

Answered(status) == Len(res) = 1 /\ res[1].status = status /\ fetches = 0

\* C39: the handler never sends a second response and has sent exactly one
\* when it is through with a request; an OPTIONS request is answered 200, any
\* other method than POST 405, a POST without a configured key 500, and a
\* POST whose text is missing, empty, blank or no string 400, each without a
\* call of the upstream API.
C39_OneResponseAndGuards ==
  /\ Len(res) <= 1
  /\ Handled =>
       /\ Len(res) = 1
       /\ req.method = "OPTIONS" => Answered(200)
       /\ req.method = "GET" => Answered(405)
       /\ (req.method = "POST" /\ GEMINI_API_KEY = NoKey) => Answered(500)
       /\ (req.method = "POST" /\ GEMINI_API_KEY # NoKey /\ req.body # "text")
          => Answered(400)

====
